---- MODULE Spec2Model ----
(***************************************************************************)
(* A model of fsrl/utils/exp_util.py: seed_all, get_cfg_value,             *)
(* load_config_and_model, to_string, auto_name and load_environment.       *)
(*                                                                         *)
(* Python strings are sequences of one-character strings, so that          *)
(* concatenation, prefixes and separators are what the code makes them.    *)
(* Python values are tagged records (PNone, PInt, PStr, PList, PDict); a   *)
(* dict keeps its insertion order as a sequence of key/value pairs.        *)
(***************************************************************************)
EXTENDS Integers, Sequences, FiniteSets

VARIABLES
    call,       \* the call being made: the function's name and its arguments
    ret,        \* how the call ended: a returned value or a raised exception
    events,     \* the side effects of the call on its collaborators, in order
    pc,         \* "idle" or "call" before a function has run, "done" after
    rng,        \* the process-wide random state seed_all sets
    registry,   \* the environment ids registered with gym
    imported    \* the modules imported so far

vars == <<call, ret, events, pc, rng, registry, imported>>

(***************************************************************************)
(* Bounds of the model.                                                    *)
(***************************************************************************)
MaxLen == 3        \* longest list of scalars drawn as an input
NestLen == 2       \* longest list drawn that has lists and dicts among its items
MaxItems == 3      \* longest `others` collection given to seed_all
MaxEpoch == 2      \* largest epoch_model_number
MaxSeed == 2       \* seeds are 0..MaxSeed

(***************************************************************************)
(* Strings.                                                                *)
(***************************************************************************)
\* The characters the model uses, in code-point order (the order sorted() uses).
Alphabet ==
    << " ", "'", ",", "-", ".", "/",
       "0", "1", "2", "3", "4", "5", "6", "7", "8", "9", ":",
       "N", "[", "]", "_",
       "a", "b", "c", "d", "e", "f", "g", "h", "i", "j", "k", "l", "m",
       "n", "o", "p", "q", "r", "s", "t", "u", "v", "w", "x", "y", "z",
       "{", "}" >>

Ord(c) == CHOOSE i \in 1..Len(Alphabet) : Alphabet[i] = c

Digits == << "0", "1", "2", "3", "4", "5", "6", "7", "8", "9" >>

RECURSIVE NatToStr(_)
NatToStr(n) ==
    IF n < 10 THEN << Digits[n + 1] >>
    ELSE NatToStr(n \div 10) \o << Digits[(n % 10) + 1] >>

\* str(n) for an int
IntToStr(n) == IF n < 0 THEN << "-" >> \o NatToStr(0 - n) ELSE NatToStr(n)

\* a < b for str, as Python compares them: by code point, then by length
RECURSIVE StrLess(_, _)
StrLess(a, b) ==
    IF b = << >> THEN FALSE
    ELSE IF a = << >> THEN TRUE
    ELSE IF Head(a) = Head(b) THEN StrLess(Tail(a), Tail(b))
    ELSE Ord(Head(a)) < Ord(Head(b))

\* sorted(S) for a set S of strings
RECURSIVE SortedStrs(_)
SortedStrs(S) ==
    IF S = {} THEN << >>
    ELSE LET m == CHOOSE x \in S : \A y \in S \ {x} : StrLess(x, y)
         IN  << m >> \o SortedStrs(S \ {m})

\* the sequences over S of length at most n
SeqsUpTo(S, n) == UNION {[1..k -> S] : k \in 0..n}

\* sep.join(parts)
RECURSIVE Join(_, _)
Join(parts, sep) ==
    IF parts = << >> THEN << >>
    ELSE IF Len(parts) = 1 THEN parts[1]
    ELSE parts[1] \o sep \o Join(Tail(parts), sep)

\* the concatenation of the strings of parts
RECURSIVE Concat(_)
Concat(parts) ==
    IF parts = << >> THEN << >> ELSE Head(parts) \o Concat(Tail(parts))

StartsWith(s, p) == Len(p) <= Len(s) /\ SubSeq(s, 1, Len(p)) = p

Contains(s, p) ==
    \E i \in 1..(Len(s) + 1) :
        i + Len(p) - 1 <= Len(s) /\ SubSeq(s, i, i + Len(p) - 1) = p

(***************************************************************************)
(* Python values.                                                          *)
(***************************************************************************)
PNone == [t |-> "none", n |-> 0, s |-> << >>, items |-> << >>, kv |-> << >>]
PTrue == [t |-> "bool", n |-> 1, s |-> << >>, items |-> << >>, kv |-> << >>]
PInt(n) == [t |-> "int", n |-> n, s |-> << >>, items |-> << >>, kv |-> << >>]
PStr(s) == [t |-> "str", n |-> 0, s |-> s, items |-> << >>, kv |-> << >>]
PList(items) == [t |-> "list", n |-> 0, s |-> << >>, items |-> items, kv |-> << >>]
PDict(kv) == [t |-> "dict", n |-> 0, s |-> << >>, items |-> << >>, kv |-> kv]

KV(k, v) == [k |-> k, v |-> v]

\* d.keys(), as a set
Keys(d) == {d.kv[i].k : i \in 1..Len(d.kv)}

\* key in d
HasKey(d, k) == k \in Keys(d)

\* d[k], for a key of d
Get(d, k) == d.kv[CHOOSE i \in 1..Len(d.kv) : d.kv[i].k = k].v

\* a == b: lists by position, dicts whatever their insertion order
RECURSIVE PyEq(_, _)
PyEq(a, b) ==
    IF a.t # b.t THEN FALSE
    ELSE IF a.t = "list" THEN
        /\ Len(a.items) = Len(b.items)
        /\ \A i \in 1..Len(a.items) : PyEq(a.items[i], b.items[i])
    ELSE IF a.t = "dict" THEN
        /\ Keys(a) = Keys(b)
        /\ \A k \in Keys(a) : PyEq(Get(a, k), Get(b, k))
    ELSE a = b

\* str(v) and repr(v)
RECURSIVE PyStr(_)
RECURSIVE PyRepr(_)
PyStr(v) ==
    IF v.t = "none" THEN << "N", "o", "n", "e" >>
    ELSE IF v.t = "int" THEN IntToStr(v.n)
    ELSE IF v.t = "str" THEN v.s
    ELSE IF v.t = "list" THEN
        << "[" >>
        \o Join([i \in 1..Len(v.items) |-> PyRepr(v.items[i])], << ",", " " >>)
        \o << "]" >>
    ELSE
        << "{" >>
        \o Join([i \in 1..Len(v.kv) |->
                    << "'" >> \o v.kv[i].k \o << "'", ":", " " >>
                    \o PyRepr(v.kv[i].v)],
                << ",", " " >>)
        \o << "}" >>

PyRepr(v) == IF v.t = "str" THEN << "'" >> \o v.s \o << "'" >> ELSE PyStr(v)

\* isinstance(v, Sequence) and not isinstance(v, str)
IsSequence(v) == v.t = "list"

(***************************************************************************)
(* Results of a call.                                                      *)
(***************************************************************************)
NoRet == [kind |-> "none"]
Return(v) == [kind |-> "return", val |-> v]
Raise(exc, msg) == [kind |-> "raise", exc |-> exc, msg |-> msg]

NoCall == [fn |-> "none"]
NoRng == [seeded |-> FALSE]

(***************************************************************************)
(* to_string.                                                              *)
(***************************************************************************)
\* to_string without the "_" prefix of the later items
RECURSIVE to_string_nosep(_)
to_string_nosep(values) ==
    IF IsSequence(values) THEN
        Concat([i \in 1..Len(values.items) |-> to_string_nosep(values.items[i])])
    ELSE IF values.t = "dict" THEN
        LET ks == SortedStrs(Keys(values))
        IN  Concat([i \in 1..Len(ks) |-> to_string_nosep(Get(values, ks[i]))])
    ELSE PyStr(values)

RECURSIVE to_string(_)
to_string(values) ==
    IF IsSequence(values) THEN
        Concat([i \in 1..Len(values.items) |->
                  (IF i = 1 THEN << >> ELSE << "_" >>)
                  \o to_string(values.items[i])])
    ELSE IF values.t = "dict" THEN
        LET ks == SortedStrs(Keys(values))
        IN  Concat([i \in 1..Len(ks) |->
                      (IF i = 1 THEN << >> ELSE << "_" >>)
                      \o to_string(Get(values, ks[i]))])
    ELSE PyStr(values)

(***************************************************************************)
(* get_cfg_value.  The result is a str; `res is not None` compares it with *)
(* the None object.                                                        *)
(***************************************************************************)
S_None == << "N", "o", "n", "e" >>

RECURSIVE get_cfg_value(_, _)
RECURSIVE GetCfgNested(_, _, _)
get_cfg_value(config, key) ==
    IF HasKey(config, key) THEN
        LET value == Get(config, key)
        IN  IF value.t = "list"
            THEN PStr(Concat([i \in 1..Len(value.items) |-> PyStr(value.items[i])]))
            ELSE PStr(PyStr(value))
    ELSE GetCfgNested(config, key, 1)

\* the loop over config.keys(), from its i-th key on
GetCfgNested(config, key, i) ==
    IF i > Len(config.kv) THEN PStr(S_None)
    ELSE IF config.kv[i].v.t = "dict" THEN
        LET res == get_cfg_value(config.kv[i].v, key)
        IN  IF res # PNone THEN res ELSE GetCfgNested(config, key, i + 1)
    ELSE GetCfgNested(config, key, i + 1)

(***************************************************************************)
(* auto_name.                                                              *)
(***************************************************************************)
DEFAULT_SKIP_KEY ==
    << << "t", "a", "s", "k" >>,
       << "r", "e", "w", "a", "r", "d", "_", "t", "h", "r", "e", "s", "h", "o", "l", "d" >>,
       << "l", "o", "g", "d", "i", "r" >>,
       << "w", "o", "r", "k", "e", "r" >>,
       << "p", "r", "o", "j", "e", "c", "t" >>,
       << "g", "r", "o", "u", "p" >>,
       << "n", "a", "m", "e" >>,
       << "p", "r", "e", "f", "i", "x" >>,
       << "s", "u", "f", "f", "i", "x" >>,
       << "s", "a", "v", "e", "_", "i", "n", "t", "e", "r", "v", "a", "l" >>,
       << "r", "e", "n", "d", "e", "r" >>,
       << "v", "e", "r", "b", "o", "s", "e" >>,
       << "s", "a", "v", "e", "_", "c", "k", "p", "t" >>,
       << "t", "r", "a", "i", "n", "i", "n", "g", "_", "n", "u", "m" >>,
       << "t", "e", "s", "t", "i", "n", "g", "_", "n", "u", "m" >>,
       << "e", "p", "o", "c", "h" >>,
       << "d", "e", "v", "i", "c", "e" >>,
       << "t", "h", "r", "e", "a", "d" >> >>

DEFAULT_KEY_ABBRE ==
    PDict(<< KV(<< "c", "o", "s", "t", "_", "l", "i", "m", "i", "t" >>,
                PStr(<< "c", "o", "s", "t" >>)),
             KV(<< "m", "s", "t", "e", "p", "_", "i", "t", "e", "r", "_", "n", "u", "m" >>,
                PStr(<< "m", "n", "u", "m" >>)),
             KV(<< "e", "s", "t", "e", "p", "_", "i", "t", "e", "r", "_", "n", "u", "m" >>,
                PStr(<< "e", "n", "u", "m" >>)),
             KV(<< "e", "s", "t", "e", "p", "_", "k", "l" >>,
                PStr(<< "e", "k", "l" >>)),
             KV(<< "m", "s", "t", "e", "p", "_", "k", "l", "_", "m", "u" >>,
                PStr(<< "k", "l", "_", "m", "u" >>)),
             KV(<< "m", "s", "t", "e", "p", "_", "k", "l", "_", "s", "t", "d" >>,
                PStr(<< "k", "l", "_", "s", "t", "d" >>)),
             KV(<< "m", "s", "t", "e", "p", "_", "d", "u", "a", "l", "_", "l", "r" >>,
                PStr(<< "m", "l", "r" >>)),
             KV(<< "e", "s", "t", "e", "p", "_", "d", "u", "a", "l", "_", "l", "r" >>,
                PStr(<< "e", "l", "r" >>)),
             KV(<< "u", "p", "d", "a", "t", "e", "_", "p", "e", "r", "_", "s", "t", "e", "p" >>,
                PStr(<< "u", "p", "d", "a", "t", "e" >>)) >>)

S_default == << "d", "e", "f", "a", "u", "l", "t" >>

\* k in skip_keys, for a list of strings
InList(k, list) == \E i \in 1..Len(list) : list[i] = k

\* The loop of auto_name over sorted(default_cfg.keys()), from the i-th key on,
\* with `name` built so far.  current_cfg[k] of a missing key raises KeyError.
RECURSIVE AutoNameLoopNoAbbre(_, _, _, _, _, _, _)
AutoNameLoopNoAbbre(ks, i, name, default_cfg, current_cfg, skip_keys, key_abbre) ==
    IF i > Len(ks) THEN [err |-> FALSE, name |-> name]
    ELSE LET k == ks[i] IN
        IF ~HasKey(current_cfg, k) THEN [err |-> TRUE, name |-> k]
        ELSE IF PyEq(Get(default_cfg, k), Get(current_cfg, k)) \/ InList(k, skip_keys)
        THEN AutoNameLoopNoAbbre(ks, i + 1, name, default_cfg, current_cfg,
                                 skip_keys, key_abbre)
        ELSE LET prefix == IF Len(name) # 0 THEN << "_" >> ELSE << >>
                 value == to_string(Get(current_cfg, k))
             IN  AutoNameLoopNoAbbre(ks, i + 1, name \o prefix \o k \o value,
                                     default_cfg, current_cfg, skip_keys, key_abbre)

RECURSIVE AutoNameLoop(_, _, _, _, _, _, _)
AutoNameLoop(ks, i, name, default_cfg, current_cfg, skip_keys, key_abbre) ==
    IF i > Len(ks) THEN [err |-> FALSE, name |-> name]
    ELSE LET k == ks[i] IN
        IF ~HasKey(current_cfg, k) THEN [err |-> TRUE, name |-> k]
        ELSE IF PyEq(Get(default_cfg, k), Get(current_cfg, k)) \/ InList(k, skip_keys)
        THEN AutoNameLoop(ks, i + 1, name, default_cfg, current_cfg,
                          skip_keys, key_abbre)
        ELSE LET prefix == IF Len(name) # 0 THEN << "_" >> ELSE << >>
                 value == to_string(Get(current_cfg, k))
                 k2 == IF HasKey(key_abbre, k) THEN Get(key_abbre, k).s ELSE k
             IN  AutoNameLoop(ks, i + 1, name \o prefix \o k2 \o value,
                              default_cfg, current_cfg, skip_keys, key_abbre)

\* auto_name without the fallback to "default"
auto_name_nofallback(default_cfg, current_cfg, prefix, suffix, skip_keys, key_abbre, uuid) ==
    LET loop == AutoNameLoop(SortedStrs(Keys(default_cfg)), 1, prefix,
                             default_cfg, current_cfg, skip_keys, key_abbre)
        name1 == loop.name
        name2 == IF Len(suffix) # 0
                 THEN (IF Len(name1) # 0 THEN name1 \o << "_" >> \o suffix ELSE suffix)
                 ELSE name1
    IN  IF loop.err THEN Raise("KeyError", loop.name)
        ELSE Return(PStr(name2 \o << "-" >> \o SubSeq(uuid, 1, 4)))

\* `uuid` is str(uuid.uuid4()), of which the name keeps the first four characters
auto_name(default_cfg, current_cfg, prefix, suffix, skip_keys, key_abbre, uuid) ==
    LET loop == AutoNameLoop(SortedStrs(Keys(default_cfg)), 1, prefix,
                             default_cfg, current_cfg, skip_keys, key_abbre)
        name1 == loop.name
        name2 == IF Len(suffix) # 0
                 THEN (IF Len(name1) # 0 THEN name1 \o << "_" >> \o suffix ELSE suffix)
                 ELSE name1
        name3 == IF Len(name2) = 0 THEN S_default ELSE name2
    IN  IF loop.err THEN Raise("KeyError", loop.name)
        ELSE Return(PStr(name3 \o << "-" >> \o SubSeq(uuid, 1, 4)))

(***************************************************************************)
(* seed_all.  `others` is None, one object, or a list of items; an object  *)
(* or item has a seed method that works ("ok"), has one that raises        *)
(* ("fails"), or has none ("noseed").  An object that is no list cannot be *)
(* iterated.  Item 0 of an event is `others` itself.                       *)
(***************************************************************************)
DefaultSeed == 1029

OthersNone == [kind |-> "none", obj |-> "noseed", items |-> << >>]
OthersObject(o) == [kind |-> "object", obj |-> o, items |-> << >>]
OthersList(items) == [kind |-> "list", obj |-> "noseed", items |-> items]

SeedEvent(i, seed) == [ev |-> "seed", item |-> i, seed |-> seed]

\* the global seeding of lines 27-35
SeedGlobals(seed) ==
    [seeded |-> TRUE, random |-> seed, hashseed |-> IntToStr(seed), numpy |-> seed,
     torch |-> seed, cuda |-> seed, cuda_all |-> seed,
     cudnn_benchmark |-> FALSE, cudnn_deterministic |-> TRUE]

\* The loop over the items inside the try, from the i-th item on: the seed
\* calls made.  A call that raises ends the loop, in the except clause.
RECURSIVE SeedItems(_, _, _)
SeedItems(items, i, seed) ==
    IF i > Len(items) THEN << >>
    ELSE IF items[i] = "noseed" THEN SeedItems(items, i + 1, seed)
    ELSE IF items[i] = "fails" THEN << SeedEvent(i, seed) >>
    ELSE << SeedEvent(i, seed) >> \o SeedItems(items, i + 1, seed)

\* seed_all(seed, others): what it returns or raises, and the seed calls made
seed_all(seed, others) ==
    IF others.kind = "none" THEN [ret |-> Return(PNone), events |-> << >>]
    ELSE IF others.kind = "object" /\ others.obj # "noseed" THEN
        [ret |-> IF others.obj = "fails"
                 THEN Raise("Exception", << "seed" >>)
                 ELSE Return(PTrue),
         events |-> << SeedEvent(0, seed) >>]
    ELSE IF others.kind = "object" THEN
        \* iterating it raises TypeError, which the except clause drops
        [ret |-> Return(PNone), events |-> << >>]
    ELSE [ret |-> Return(PNone), events |-> SeedItems(others.items, 1, seed)]

Seeds == {DefaultSeed} \cup 0..MaxSeed
ItemKinds == {"ok", "fails", "noseed"}
OthersVals ==
    {OthersNone} \cup {OthersObject(o) : o \in ItemKinds}
    \cup {OthersList(x) : x \in SeqsUpTo(ItemKinds, MaxItems)}

InitIdle ==
    /\ call = NoCall
    /\ ret = NoRet
    /\ events = << >>
    /\ pc = "idle"
    /\ rng = NoRng
    /\ registry = {}
    /\ imported = {}

CallSeedAll ==
    \E seed \in Seeds, others \in OthersVals :
        LET r == seed_all(seed, others) IN
        /\ call' = [fn |-> "seed_all", seed |-> seed, others |-> others]
        /\ rng' = SeedGlobals(seed)
        /\ ret' = r.ret
        /\ events' = r.events
        /\ pc' = "done"
        /\ UNCHANGED <<registry, imported>>

SpecSeed == InitIdle /\ [][CallSeedAll]_vars

(***************************************************************************)
(* load_config_and_model.  The file system is the set of directories and   *)
(* the set of files that exist.                                            *)
(***************************************************************************)
S_config_yaml == << "c", "o", "n", "f", "i", "g", ".", "y", "a", "m", "l" >>
S_checkpoint == << "c", "h", "e", "c", "k", "p", "o", "i", "n", "t", "/" >>
S_model_epoch == << "m", "o", "d", "e", "l", "_", "e", "p", "o", "c", "h", "-" >>
S_pt == << ".", "p", "t" >>
S_model_pt == << "m", "o", "d", "e", "l", ".", "p", "t" >>
S_model_best_pt == << "m", "o", "d", "e", "l", "_", "b", "e", "s", "t", ".", "p", "t" >>
S_doesnt_exist == << " ", "d", "o", "e", "s", "n", "'", "t", " ", "e", "x", "i", "s", "t", "!" >>
S_run == << "r", "u", "n" >>
S_nodir == << "n", "o", "d", "i", "r" >>

\* osp.join(a, b)
OsPathJoin(a, b) ==
    IF b # << >> /\ Head(b) = "/" THEN b
    ELSE IF a = << >> \/ a[Len(a)] = "/" THEN a \o b
    ELSE a \o << "/" >> \o b

\* a path without its trailing slashes, as the file system resolves it
RECURSIVE Resolve(_)
Resolve(path) ==
    IF Len(path) > 1 /\ path[Len(path)] = "/"
    THEN Resolve(SubSeq(path, 1, Len(path) - 1))
    ELSE path

\* a test of the path that finds every path there
PathExistsAlways(fs, path) == TRUE

\* osp.exists(path)
PathExists(fs, path) == Resolve(path) \in fs.dirs \cup fs.files

\* the checkpoint's file name with the epoch number taking priority
ModelFileEpochFirst(best, epoch_model_number) ==
    IF epoch_model_number # PNone
    THEN S_model_epoch \o PyStr(epoch_model_number) \o S_pt
    ELSE IF best THEN S_model_best_pt ELSE S_model_pt

\* lines 81-83: the checkpoint's file name
ModelFile(best, epoch_model_number) ==
    LET model_file == IF epoch_model_number # PNone
                      THEN S_model_epoch \o PyStr(epoch_model_number) \o S_pt
                      ELSE S_model_pt
    IN  IF best THEN S_model_best_pt ELSE model_file

PrintEvent(s) == [ev |-> "print", text |-> s]
OpenEvent(path) == [ev |-> "open", path |-> path]
TorchLoadEvent(path) == [ev |-> "torch.load", path |-> path, map_location |-> "cpu"]

load_config_and_model(path, best, epoch_model_number, fs) ==
    IF PathExists(fs, path) THEN
        LET config_file == OsPathJoin(path, S_config_yaml)
            model_file == ModelFile(best, epoch_model_number)
            model_path == OsPathJoin(path, S_checkpoint \o model_file)
            ev1 == << PrintEvent(<< "load config from ", config_file >>),
                      OpenEvent(config_file) >>
            ev2 == << PrintEvent(<< "load model from ", model_path >>),
                      TorchLoadEvent(model_path) >>
        IN  IF config_file \notin fs.files
            THEN [ret |-> Raise("FileNotFoundError", config_file), events |-> ev1]
            ELSE IF model_path \notin fs.files
            THEN [ret |-> Raise("FileNotFoundError", model_path),
                  events |-> ev1 \o ev2]
            ELSE [ret |-> Return(<< [yaml |-> config_file], [model |-> model_path] >>),
                  events |-> ev1 \o ev2]
    ELSE [ret |-> Raise("ValueError", path \o S_doesnt_exist), events |-> << >>]

Paths == { S_run, S_run \o << "/" >>, S_nodir }
RunFiles ==
    { S_run \o << "/" >> \o S_config_yaml,
      S_run \o << "/" >> \o S_checkpoint \o S_model_pt,
      S_run \o << "/" >> \o S_checkpoint \o S_model_best_pt,
      S_run \o << "/" >> \o S_checkpoint \o S_model_epoch \o << "1" >> \o S_pt }
FileSystems ==
    { [dirs |-> {}, files |-> {}] }
    \cup { [dirs |-> {S_run}, files |-> f] : f \in SUBSET RunFiles }
EpochVals == {PNone} \cup {PInt(n) : n \in 0..MaxEpoch}

CallLoadConfigAndModel ==
    \E path \in Paths, best \in BOOLEAN, epoch \in EpochVals, fs \in FileSystems :
        LET r == load_config_and_model(path, best, epoch, fs) IN
        /\ call' = [fn |-> "load_config_and_model", path |-> path, best |-> best,
                    epoch_model_number |-> epoch, fs |-> fs]
        /\ ret' = r.ret
        /\ events' = r.events
        /\ pc' = "done"
        /\ UNCHANGED <<rng, registry, imported>>

SpecLoad == InitIdle /\ [][CallLoadConfigAndModel]_vars

(***************************************************************************)
(* load_environment.  An environment configuration has the keys in `keys`; *)
(* the value of import_module is a module's name or NoModule (None).       *)
(* `source` says how the configuration is given: as a dict, as the path of *)
(* a JSON file holding it, or as a path with no file.  `configurable` says *)
(* whether the environment gym makes has a configure method.               *)
(***************************************************************************)
NoModule == "None"
Modules == {"mod_a", "no_such_mod"}
Importable == {"mod_a"}
\* the ids a module registers when it is imported
Registers(m) == IF m = "mod_a" THEN {"Mod-v0"} ELSE {}
BaseRegistry == {"Reg-v0"}
EnvIds == {"Reg-v0", "Mod-v0", "Nope-v0"}

EnvConfig(keys, id, import_module) ==
    [keys |-> keys, id |-> id, import_module |-> import_module]

EnvConfigs ==
    { EnvConfig(k, IF "id" \in k THEN id ELSE "",
                IF "import_module" \in k THEN m ELSE NoModule) :
        k \in SUBSET {"id", "import_module"}, id \in EnvIds,
        m \in Modules \cup {NoModule} }

S_must_be_provided == << "The gym register-id of the environment must be provided" >>
UnregisteredMsg(id) ==
    << "Environment ", id,
       " not registered. The environment module should be specified by the \"import_module\" key of the environment configuration" >>

\* the post-construction steps with reset made whether or not configure is there
ConfigureEnvAlwaysReset(env_config, configurable) ==
    IF configurable
    THEN << [ev |-> "configure", config |-> env_config], [ev |-> "reset"] >>
    ELSE << [ev |-> "logger.info",
             text |-> "This environment does not support configuration. {}"],
            [ev |-> "reset"] >>

\* lines 214-220: the calls made on the environment after gym.make
ConfigureEnv(env_config, configurable) ==
    IF configurable
    THEN << [ev |-> "configure", config |-> env_config], [ev |-> "reset"] >>
    ELSE << [ev |-> "logger.info",
             text |-> "This environment does not support configuration. {}"] >>

\* the KeyError of env_config['id'] left uncaught
MissingIdKeyError == Raise("KeyError", << "id" >>)

\* lines 205-206: the KeyError of env_config['id'] becomes a ValueError
MissingIdError == Raise("ValueError", S_must_be_provided)

\* load_environment(env_config, render_mode) with `reg` registered and `imp`
\* imported: the result, the calls made, and the registry and imports after
load_environment(source, env_config, render_mode, configurable, reg, imp) ==
    LET open_ev == IF source = "dict" THEN << >>
                   ELSE << [ev |-> "open", path |-> "env.json"] >>
        do_import == "import_module" \in env_config.keys
                        /\ env_config.import_module # NoModule
        m == env_config.import_module
        import_ev == IF do_import THEN << [ev |-> "import", module |-> m] >> ELSE << >>
        imp2 == IF do_import /\ m \in Importable THEN imp \cup {m} ELSE imp
        reg2 == IF do_import /\ m \in Importable THEN reg \cup Registers(m) ELSE reg
    IN
    IF source = "nofile" THEN
        [ret |-> Raise("FileNotFoundError", << "env.json" >>), events |-> open_ev,
         registry |-> reg, imported |-> imp]
    ELSE IF do_import /\ m \notin Importable THEN
        [ret |-> Raise("ModuleNotFoundError", << m >>),
         events |-> open_ev \o import_ev, registry |-> reg, imported |-> imp]
    ELSE IF "id" \notin env_config.keys THEN
        \* env_config['id'] raises KeyError, before gym.make is called
        [ret |-> MissingIdError,
         events |-> open_ev \o import_ev, registry |-> reg2, imported |-> imp2]
    ELSE IF env_config.id \notin reg2 THEN
        LET make_ev == << [ev |-> "gym.make", id |-> env_config.id,
                           render_mode |-> render_mode, made |-> FALSE] >>
        IN  IF "import_module" \notin env_config.keys THEN
                \* print("import_module", env_config["import_module"]) raises
                \* KeyError inside the except clause
                [ret |-> Raise("KeyError", << "import_module" >>),
                 events |-> open_ev \o import_ev \o make_ev,
                 registry |-> reg2, imported |-> imp2]
            ELSE
                [ret |-> Raise("UnregisteredEnv", UnregisteredMsg(env_config.id)),
                 events |-> open_ev \o import_ev \o make_ev
                            \o << [ev |-> "print", text |-> << "import_module", m >>] >>,
                 registry |-> reg2, imported |-> imp2]
    ELSE
        [ret |-> Return([id |-> env_config.id, render_mode |-> render_mode,
                         import_module |-> m]),
         events |-> open_ev \o import_ev
                    \o << [ev |-> "gym.make", id |-> env_config.id,
                           render_mode |-> render_mode, made |-> TRUE] >>
                    \o ConfigureEnv(env_config, configurable),
         registry |-> reg2, imported |-> imp2]

InitEnv ==
    /\ call = NoCall
    /\ ret = NoRet
    /\ events = << >>
    /\ pc = "idle"
    /\ rng = NoRng
    /\ registry = BaseRegistry
    /\ imported = {}

CallLoadEnvironment ==
    \E source \in {"dict", "file", "nofile"}, env_config \in EnvConfigs,
       render_mode \in {"None", "human"}, configurable \in BOOLEAN :
        LET r == load_environment(source, env_config, render_mode, configurable,
                                  registry, imported) IN
        /\ call' = [fn |-> "load_environment", source |-> source,
                    env_config |-> env_config, render_mode |-> render_mode,
                    configurable |-> configurable, registered |-> registry]
        /\ ret' = r.ret
        /\ events' = r.events
        /\ registry' = r.registry
        /\ imported' = r.imported
        /\ pc' = "done"
        /\ UNCHANGED rng

SpecEnv == InitEnv /\ [][CallLoadEnvironment]_vars

(***************************************************************************)
(* The inputs of the naming functions.                                     *)
(***************************************************************************)
K_a == << "a" >>
K_b == << "b" >>
K_k == << "k" >>
K_x == << "x" >>
K_z == << "z" >>
K_lr == << "l", "r" >>
K_epoch == << "e", "p", "o", "c", "h" >>
K_cost_limit == << "c", "o", "s", "t", "_", "l", "i", "m", "i", "t" >>

ScalarVals == {PInt(1), PInt(2), PInt(3), PInt(12), PStr(K_a)}
SmallScalars == {PInt(1), PInt(2)}
InnerLists == {PList(x) : x \in SeqsUpTo(SmallScalars, MaxLen)}

\* dicts whose insertion order is and is not their sorted order
SmallDicts ==
    { PDict(<< KV(K_b, PInt(2)), KV(K_a, PInt(1)) >>),
      PDict(<< KV(K_a, PInt(1)), KV(K_b, PInt(2)) >>),
      PDict(<< KV(K_b, PList(<< PInt(1), PInt(2) >>)), KV(K_a, PInt(12)) >>) }

FlatLists == {PList(x) : x \in SeqsUpTo(ScalarVals, MaxLen)}
NestedLists ==
    {PList(x) : x \in SeqsUpTo(ScalarVals \cup InnerLists \cup SmallDicts, NestLen)}
ListVals == FlatLists \cup NestedLists

ToStringInputs == ScalarVals \cup {PNone} \cup ListVals \cup SmallDicts

ToStringCalls == {[fn |-> "to_string", values |-> v] : v \in ToStringInputs}

\* configurations for get_cfg_value: the key "k" at the top level, in the first
\* or in a later nested mapping, one or two levels down, or nowhere
KVals == {PInt(7), PNone, PList(<< PInt(1), PInt(2) >>)}

D0 ==
    { PDict(<< >>), PDict(<< KV(K_x, PInt(1)) >>) }
    \cup { PDict(<< KV(K_k, v) >>) : v \in KVals }
    \cup { PDict(<< KV(K_x, PInt(1)), KV(K_k, v) >>) : v \in KVals }

D1 ==
    { PDict(<< KV(K_a, d) >>) : d \in D0 }
    \cup { PDict(<< KV(K_a, d[1]), KV(K_b, d[2]) >>) : d \in D0 \X D0 }

D2 ==
    { PDict(<< KV(K_x, PInt(1)), KV(K_a, d[1]), KV(K_b, d[2]) >>) :
        d \in { PDict(<< KV(K_a, e) >>) : e \in D0 } \X D0 }

GetCfgCalls ==
    {[fn |-> "get_cfg_value", config |-> c, key |-> k] :
        c \in D0 \cup D1 \cup D2, k \in {K_k, K_a, K_z}}

\* configurations for auto_name: each of three keys absent or with a value;
\* the insertion order is not the sorted order
CfgVals == {PInt(1), PInt(5), PList(<< PInt(1), PInt(2) >>)}
Absent == [t |-> "absent", n |-> 0, s |-> << >>, items |-> << >>, kv |-> << >>]

DictOf(lrv, epochv, costv) ==
    PDict( (IF lrv = Absent THEN << >> ELSE << KV(K_lr, lrv) >>)
        \o (IF epochv = Absent THEN << >> ELSE << KV(K_epoch, epochv) >>)
        \o (IF costv = Absent THEN << >> ELSE << KV(K_cost_limit, costv) >>) )

NameCfgs ==
    { DictOf(v[1], v[2], v[3]) :
        v \in (CfgVals \cup {Absent}) \X {PInt(1), PInt(5), Absent} \X (CfgVals \cup {Absent}) }

Affixes == { << >>, << "p", "p", "o" >> }
SkipKeyLists == { DEFAULT_SKIP_KEY, << K_lr >> }
UuidStrs == { << "0", "a", "1", "b", "2", "c", "3", "d", "-" >>,
              << "f", "f", "f", "f", "0", "0", "0", "0", "-" >> }

AutoNameCalls ==
    {[fn |-> "auto_name", default_cfg |-> d, current_cfg |-> c, prefix |-> a[1],
      suffix |-> a[2], skip_keys |-> sk, key_abbre |-> DEFAULT_KEY_ABBRE, uuid |-> u] :
        d \in NameCfgs, c \in NameCfgs, a \in Affixes \X Affixes,
        sk \in SkipKeyLists, u \in UuidStrs}

(***************************************************************************)
(* The naming functions are pure: a behaviour is one call, whose arguments *)
(* the initial state draws.                                                *)
(***************************************************************************)
InitNaming ==
    /\ call \in ToStringCalls \cup GetCfgCalls \cup AutoNameCalls
    /\ ret = NoRet
    /\ events = << >>
    /\ pc = "call"
    /\ rng = NoRng
    /\ registry = {}
    /\ imported = {}

CallToString ==
    /\ pc = "call"
    /\ call.fn = "to_string"
    /\ ret' = Return(PStr(to_string(call.values)))
    /\ pc' = "done"
    /\ UNCHANGED <<call, events, rng, registry, imported>>

CallGetCfgValue ==
    /\ pc = "call"
    /\ call.fn = "get_cfg_value"
    /\ ret' = Return(get_cfg_value(call.config, call.key))
    /\ pc' = "done"
    /\ UNCHANGED <<call, events, rng, registry, imported>>

CallAutoName ==
    /\ pc = "call"
    /\ call.fn = "auto_name"
    /\ ret' = auto_name(call.default_cfg, call.current_cfg, call.prefix, call.suffix,
                        call.skip_keys, call.key_abbre, call.uuid)
    /\ pc' = "done"
    /\ UNCHANGED <<call, events, rng, registry, imported>>

NextNaming == CallToString \/ CallGetCfgValue \/ CallAutoName

SpecNaming == InitNaming /\ [][NextNaming]_vars

(***************************************************************************)
(* Properties of the naming functions.                                     *)
(***************************************************************************)
Done(fn) == pc = "done" /\ call.fn = fn

\* a list whose items are scalars or such lists
RECURSIVE IsSeqTree(_)
IsSeqTree(v) ==
    /\ v.t = "list"
    /\ \A i \in 1..Len(v.items) :
         v.items[i].t \in {"none", "int", "str"} \/ IsSeqTree(v.items[i])

\* the string forms of the items, in order, with sep between consecutive items
RECURSIVE ItemsJoined(_, _)
ItemsJoined(v, sep) ==
    IF v.t = "list"
    THEN Join([i \in 1..Len(v.items) |-> ItemsJoined(v.items[i], sep)], sep)
    ELSE PyStr(v)

\* C2 as stated: to_string of a sequence is the string forms of its items, in
\* order, with nothing between them (to_string([1,2,3]) = "123").
C2_NothingBetweenItems ==
    (Done("to_string") /\ IsSeqTree(call.values))
        => ret = Return(PStr(ItemsJoined(call.values, << >>)))

\* C2, amended: to_string of a sequence is the string forms of its items, in
\* order, with one "_" between consecutive items, recursively for nested
\* sequences (to_string([1,2,3]) = "1_2_3").
C2_UnderscoreBetweenItems ==
    (Done("to_string") /\ IsSeqTree(call.values))
        => ret = Return(PStr(ItemsJoined(call.values, << "_" >>)))

\* C2: to_string([1,2,3]) has returned "1_2_3".
C2_Witness ==
    /\ Done("to_string")
    /\ call.values = PList(<< PInt(1), PInt(2), PInt(3) >>)
    /\ ret = Return(PStr(<< "1", "_", "2", "_", "3" >>))

S_default_dash == S_default \o << "-" >>
S_cost5 == << "c", "o", "s", "t", "5" >>

\* C6 as stated: with identical default and current configurations the name is
\* "default-" and four more characters, whatever the prefix and the suffix.
C6_DefaultNameAnyAffix ==
    (Done("auto_name") /\ call.default_cfg = call.current_cfg)
        => /\ ret.kind = "return"
           /\ StartsWith(ret.val.s, S_default_dash)
           /\ Len(ret.val.s) = Len(S_default_dash) + 4

\* C6, amended: with identical default and current configurations and an empty
\* prefix and suffix, the name is "default-" and four more characters.
C6_DefaultNameNoAffix ==
    (Done("auto_name") /\ call.default_cfg = call.current_cfg
        /\ call.prefix = << >> /\ call.suffix = << >>)
        => /\ ret.kind = "return"
           /\ StartsWith(ret.val.s, S_default_dash)
           /\ Len(ret.val.s) = Len(S_default_dash) + 4

\* C6: identical three-key configurations, no prefix, no suffix: "default-0a1b".
C6_Witness ==
    /\ Done("auto_name")
    /\ call.default_cfg = call.current_cfg
    /\ Keys(call.default_cfg) = {K_lr, K_epoch, K_cost_limit}
    /\ call.prefix = << >> /\ call.suffix = << >>
    /\ ret = Return(PStr(S_default_dash \o << "0", "a", "1", "b" >>))

\* the segments C8 names: one per key of the default configuration, in sorted
\* order, whose value differs in the current one and which is not skipped
RECURSIVE NameSegments(_, _, _, _, _)
NameSegments(ks, default_cfg, current_cfg, skip_keys, key_abbre) ==
    IF ks = << >> THEN << >>
    ELSE LET k == Head(ks)
             rest == NameSegments(Tail(ks), default_cfg, current_cfg, skip_keys,
                                  key_abbre)
         IN  IF PyEq(Get(default_cfg, k), Get(current_cfg, k)) \/ InList(k, skip_keys)
             THEN rest
             ELSE << (IF HasKey(key_abbre, k) THEN Get(key_abbre, k).s ELSE k)
                     \o to_string(Get(current_cfg, k)) >> \o rest

NonEmpty(parts) == SelectSeq(parts, LAMBDA x : x # << >>)

\* the name without its "-" and four random characters
NameBody(name) == SubSeq(name, 1, Len(name) - 5)

\* C8: for configurations with the same keys, the body of the name is the
\* segments of the differing, non-skipped keys in sorted-key order joined by
\* "_", each the key's abbreviation (or the key) followed by to_string of the
\* current value; a non-empty prefix goes before them and a non-empty suffix
\* after them, joined by "_" too, and a body that would be empty is "default".
\* Current {"cost_limit": 5} against default {"cost_limit": 1} gives a name
\* that contains "cost5".
C8_NameBodyIsDifferingSegments ==
    (Done("auto_name") /\ Keys(call.default_cfg) = Keys(call.current_cfg))
        => LET segs == NameSegments(SortedStrs(Keys(call.default_cfg)),
                                    call.default_cfg, call.current_cfg,
                                    call.skip_keys, call.key_abbre)
               parts == NonEmpty(<< call.prefix >> \o segs \o << call.suffix >>)
           IN  /\ ret.kind = "return"
               /\ NameBody(ret.val.s) =
                     (IF parts = << >> THEN S_default ELSE Join(parts, << "_" >>))
               /\ (call.prefix = << >> /\ call.suffix = << >> /\ segs # << >>)
                     => NameBody(ret.val.s) = Join(segs, << "_" >>)
               /\ (/\ call.default_cfg = PDict(<< KV(K_cost_limit, PInt(1)) >>)
                   /\ call.current_cfg = PDict(<< KV(K_cost_limit, PInt(5)) >>))
                     => Contains(ret.val.s, S_cost5)

\* C8: lr, epoch and cost_limit all differ, epoch is skipped: "cost5_lr1_2-ffff".
C8_Witness ==
    /\ Done("auto_name")
    /\ call.default_cfg = DictOf(PInt(1), PInt(1), PInt(1))
    /\ call.current_cfg = DictOf(PList(<< PInt(1), PInt(2) >>), PInt(5), PInt(5))
    /\ call.skip_keys = DEFAULT_SKIP_KEY
    /\ call.prefix = << >> /\ call.suffix = << >>
    /\ ret = Return(PStr(<< "c", "o", "s", "t", "5", "_", "l", "r", "1", "_", "2",
                            "-", "f", "f", "f", "f" >>))

\* the values of key wherever it occurs in config: at the top level and in
\* the nested mappings at any depth
RECURSIVE Occurrences(_, _)
Occurrences(config, key) ==
    (IF HasKey(config, key) THEN {Get(config, key)} ELSE {})
    \cup UNION { IF config.kv[i].v.t = "dict"
                 THEN Occurrences(config.kv[i].v, key) ELSE {} :
                 i \in 1..Len(config.kv) }

\* the string form of a value: list items concatenated
CfgStr(value) ==
    IF value.t = "list"
    THEN Concat([i \in 1..Len(value.items) |-> PyStr(value.items[i])])
    ELSE PyStr(value)

\* C10: get_cfg_value finds the key wherever it occurs: the result is the
\* string form of the key's value when the key is at the top level or in any
\* nested mapping, and "None" only when the key occurs nowhere.
C10_KeyFoundAnywhere ==
    Done("get_cfg_value")
        => LET occ == Occurrences(call.config, call.key)
           IN  /\ ret.kind = "return"
               /\ occ # {} => ret.val.s \in {CfgStr(v) : v \in occ}
               /\ occ = {} => ret.val.s = S_None

(***************************************************************************)
(* Properties of seed_all.                                                 *)
(***************************************************************************)
EventsOf(kind) == {i \in 1..Len(events) : events[i].ev = kind}

\* C3: when others is a list, a failure while seeding one item is dropped and
\* does not keep the rest from being seeded: no exception reaches the caller
\* and every item whose seed works has had seed(seed) called.
C3_FailingItemDoesNotBlockRest ==
    (Done("seed_all") /\ call.others.kind = "list")
        => /\ ret.kind = "return"
           /\ \A i \in 1..Len(call.others.items) :
                call.others.items[i] = "ok"
                    => \E j \in EventsOf("seed") : events[j] = SeedEvent(i, call.seed)

(***************************************************************************)
(* Properties of load_config_and_model.                                    *)
(***************************************************************************)
DirThere == Resolve(call.path) \in call.fs.dirs
ConfigThere == (Resolve(call.path) \o << "/" >> \o S_config_yaml) \in call.fs.files
CheckpointPath(name) == Resolve(call.path) \o << "/" >> \o S_checkpoint \o name
EpochName == S_model_epoch \o IntToStr(call.epoch_model_number.n) \o S_pt
EpochGiven == call.epoch_model_number.t = "int"

\* the checkpoint is loaded once, from `file`, and is what is returned
LoadsOnly(file) ==
    /\ ConfigThere => Cardinality(EventsOf("torch.load")) = 1
    /\ \A i \in EventsOf("torch.load") : events[i].path = file
    /\ ret.kind = "return" => ret.val[2].model = file

\* C1 as stated: for an existing path the checkpoint loaded is
\* model_epoch-<N>.pt when an epoch number is given (also when best is True),
\* else model_best.pt when best is True, else model.pt.
C1_EpochBeforeBest ==
    (Done("load_config_and_model") /\ DirThere)
        => LoadsOnly(CheckpointPath(
               IF EpochGiven THEN EpochName
               ELSE IF call.best THEN S_model_best_pt ELSE S_model_pt))

\* C1, amended: for an existing path the checkpoint loaded is model_best.pt
\* when best is True (also when an epoch number is given), else
\* model_epoch-<N>.pt when an epoch number is given, else model.pt.
C1_BestBeforeEpoch ==
    (Done("load_config_and_model") /\ DirThere)
        => LoadsOnly(CheckpointPath(
               IF call.best THEN S_model_best_pt
               ELSE IF EpochGiven THEN EpochName ELSE S_model_pt))

\* C1: best and epoch 1 both given, every file there: model_best.pt is loaded.
C1_Witness ==
    /\ Done("load_config_and_model")
    /\ DirThere /\ ConfigThere
    /\ call.best /\ call.epoch_model_number = PInt(1)
    /\ call.fs.files = RunFiles
    /\ ret.kind = "return"
    /\ ret.val[2].model = CheckpointPath(S_model_best_pt)

\* C7: for a path that does not exist load_config_and_model raises the
\* ValueError that names the path, and opens no file and loads no checkpoint.
C7_MissingPathRaisesBeforeOpen ==
    (Done("load_config_and_model") /\ ~DirThere)
        => /\ ret.kind = "raise"
           /\ ret.exc = "ValueError"
           /\ ret.msg = call.path \o S_doesnt_exist
           /\ EventsOf("open") = {}
           /\ EventsOf("torch.load") = {}

\* C7: the path "nodir" is not there, although "run" and its files are.
C7_Witness ==
    /\ Done("load_config_and_model")
    /\ call.path = S_nodir
    /\ call.fs.files = RunFiles
    /\ ret = Raise("ValueError", S_nodir \o S_doesnt_exist)

(***************************************************************************)
(* Properties of load_environment.                                         *)
(***************************************************************************)
HasId == "id" \in call.env_config.keys
\* the import of line 200 is not made or finds its module
ImportWorks ==
    \/ "import_module" \notin call.env_config.keys
    \/ call.env_config.import_module \in Importable \cup {NoModule}
NoEnvironmentMade ==
    /\ EventsOf("gym.make") = {}
    /\ EventsOf("configure") = {}
    /\ EventsOf("reset") = {}
    /\ ret.kind # "return"

\* C4: for a configuration whose id is present but not registered,
\* load_environment raises UnregisteredEnv with the message that names the id
\* and the "import_module" key, whether or not the configuration has an
\* import_module key; the error is not the missing-identifier error.
C4_UnregisteredIdRaisesUnregisteredEnv ==
    (Done("load_environment") /\ call.source # "nofile" /\ HasId /\ ImportWorks
        /\ call.env_config.id \notin registry)
        => /\ ret = Raise("UnregisteredEnv", UnregisteredMsg(call.env_config.id))
           /\ ret # MissingIdError

\* C5 as stated: for every configuration mapping without the id key,
\* load_environment raises the ValueError that asks for the register-id, and no
\* environment is made, configured, reset or returned.
C5_MissingIdAlwaysValueError ==
    (Done("load_environment") /\ call.source = "dict" /\ ~HasId)
        => /\ ret = Raise("ValueError", S_must_be_provided)
           /\ NoEnvironmentMade

\* C5, amended: for every configuration mapping without the id key whose
\* import_module, when it names a module, can be imported, load_environment
\* raises the ValueError that asks for the register-id; for every mapping
\* without the id key no environment is made, configured, reset or returned.
C5_MissingIdValueErrorAfterImport ==
    (Done("load_environment") /\ call.source = "dict" /\ ~HasId)
        => /\ ImportWorks => ret = Raise("ValueError", S_must_be_provided)
           /\ NoEnvironmentMade

\* C5: a mapping with an importable import_module and no id: ValueError.
C5_Witness ==
    /\ Done("load_environment")
    /\ call.source = "dict"
    /\ call.env_config = EnvConfig({"import_module"}, "", "mod_a")
    /\ ret = Raise("ValueError", S_must_be_provided)
    /\ "mod_a" \in imported

Made == {i \in EventsOf("gym.make") : events[i].made}

\* C9: once load_environment has made an environment: when the environment has
\* a configure method, configure is called once and reset once, after it; when
\* it has none, that is logged, reset is not called, and in both cases the
\* environment is returned and nothing is raised.
C9_ConfigureThenResetOrLog ==
    (Done("load_environment") /\ Made # {})
        => /\ ret.kind = "return"
           /\ ret.val.id = call.env_config.id
           /\ call.configurable =>
                /\ Cardinality(EventsOf("configure")) = 1
                /\ Cardinality(EventsOf("reset")) = 1
                /\ EventsOf("logger.info") = {}
                /\ \A m \in Made, c \in EventsOf("configure"), r \in EventsOf("reset") :
                     m < c /\ c < r
           /\ ~call.configurable =>
                /\ EventsOf("configure") = {}
                /\ EventsOf("reset") = {}
                /\ Cardinality(EventsOf("logger.info")) = 1

\* C9: Mod-v0, registered by the import, is made, configured and then reset.
C9_Witness ==
    /\ Done("load_environment")
    /\ call.configurable
    /\ call.env_config = EnvConfig({"id", "import_module"}, "Mod-v0", "mod_a")
    /\ ret.kind = "return"
    /\ Len(events) = 4
    /\ events[3].ev = "configure" /\ events[4].ev = "reset"

====
